---- MODULE Spec2Model ----
(***************************************************************************)
(* Model of the hanoi-tower game (src/hanoi-tower) of the repository:      *)
(*   - hanoi_solver, the recursive move generator (solve.py);              *)
(*   - HanoiGUI, the game state and its event handlers (graphics.py);      *)
(* and of the bank-marketing prediction apps (src/Jupyter Notebook ...):   *)
(*   - recommend_for_non_subscriber, the grid search (Prediction_app.py);  *)
(*   - process_bulk_upload (Prediction_app_improved3.py).                  *)
(*                                                                         *)
(* The specifications are defined over the same variables:                 *)
(*   SolverSpec  calls hanoi_solver on bounded inputs and replays the      *)
(*               returned moves from the all-on-source position;           *)
(*   SearchSpec  plays every sequence of legal moves of bounded length     *)
(*               from the all-on-source position;                          *)
(*   Spec        the game: menu, name entry, play, solver animation, win;  *)
(*   SessionSpec the game, several short games in one run;                 *)
(*   ClampSpec   setup_get_name and setup_game called with any integer;     *)
(*   GridSpec    one call of recommend_for_non_subscriber, one candidate   *)
(*               per step, the model's answer drawn at each step;          *)
(*   BulkSpec    one call of process_bulk_upload on a bounded table.       *)
(*                                                                         *)
(* Towers are indexed 0..2 as in the code. A tower is a sequence of disk   *)
(* sizes, bottom first (Python list, append/pop at the end). A disk is     *)
(* identified by its size: setup_game creates one disk per size 1..n.      *)
(* Display-only state (rects, positions, particles, music, fonts, the      *)
(* selected score tab, start_time) is left out; ui_buttons is a function   *)
(* of game_state and animating and is represented by the actions' guards.  *)
(***************************************************************************)
EXTENDS Integers, Sequences, FiniteSets, TLC

VARIABLES
    \* ---- HanoiGUI attributes (graphics.py __init__) ----
    game_state,         \* name of the current screen
    n,                  \* number of disks of the current game
    min_moves,          \* 2^n - 1, displayed
    moves,              \* move counter of the current game
    animating,          \* solver animation in progress
    towers,             \* [0..2 -> sequence of disk sizes]; <<>> before any game
    dragging_disk,      \* size of the held disk, or NoDisk
    source_tower_idx,   \* tower the held disk was picked from
    is_solver_used,     \* 'Solution' was pressed in this game
    move_history,       \* moves of the current game, 1-based tower indices
    game_id,            \* identifier of the current game (uuid4, modelled fresh)
    pending_disks,      \* disk count chosen in the menu
    player_name,
    scores,             \* score list (scoreboard.json)
    full_move_history,  \* move-history list (move_history.json)
    scoreboard_json,    \* the list in the file scoreboard.json
    move_history_json,  \* the list in the file move_history.json
    last_sound,         \* key of the last sound of self.sounds that was played
    \* ---- locals of start_animation, alive while animating ----
    solution,           \* list returned by hanoi_solver(n, 0, 2, 1)
    anim_idx,           \* number of loop iterations completed
    \* ---- harness of the pure function hanoi_solver ----
    run,                \* one call of hanoi_solver and the replay of its result
    search,             \* one play of legal moves from the all-on-source position
    \* ---- the prediction apps ----
    grid,               \* one call of recommend_for_non_subscriber
    bulk,               \* one call of process_bulk_upload
    change,             \* one call of find_minimal_change_for_success
    \* ---- the start of the program ----
    boot                \* HanoiGUI.__init__: the files found, the step reached

gui == <<game_state, n, min_moves, moves, animating, towers, dragging_disk,
         source_tower_idx, is_solver_used, move_history, game_id, pending_disks,
         player_name, scores, full_move_history, scoreboard_json,
         move_history_json, last_sound, solution, anim_idx>>

vars == <<gui, run, search, grid, bulk, change, boot>>

(***************************************************************************)
(* Bounds of the model.                                                    *)
(***************************************************************************)
\* largest n given to hanoi_solver in SolverSpec
MaxN == 10
\* largest n played exhaustively in SearchSpec
MaxSearchN == 5
\* largest disk count given to setup_get_name in Spec
MaxDisks == 2
\* largest disk count of the game played in PlaySpec
MaxPlayDisks == 2
\* a player pick-up is modelled only while the move counter is below this
MaxMoves == 2
\* number of games started in one run
MaxGames == 1
\* number of entries of each option list that the grid search scans
MaxOptions == 2
\* setup_get_name and setup_game are called with the integers -MaxArg..MaxArg
MaxArg == 28
\* number of games started in a session of several games
MaxSessionGames == 2
\* largest number of required columns that an uploaded table lacks
MaxMissing == 2
\* largest number of rows of an uploaded table
MaxRows == 2
\* largest number of entries of a list found in scoreboard.json or
\* move_history.json when the program starts
MaxStored == 2

(***************************************************************************)
(* Values.                                                                 *)
(***************************************************************************)
\* Python None for dragging_disk (disk sizes are >= 1)
NoDisk == 0
\* Python None returned by get_tower_at
None == -1

Towers == 0 .. 2

Names == {"ana"}

Pow2(k) == 2 ^ k

\* mutant: the sizes are listed from 1 up to n
Ascending(k) == [i \in 1 .. k |-> i]

\* range(n, 0, -1): the sizes n, n-1, ..., 1 as a list
Descending(k) == [i \in 1 .. k |-> k + 1 - i]

Top(t) == t[Len(t)]

Pop(t) == SubSeq(t, 1, Len(t) - 1)

IsEmpty(t) == Len(t) = 0

(***************************************************************************)
(* solve.py: hanoi_solver.                                                 *)
(***************************************************************************)
RECURSIVE hanoi_solver_swapped(_, _, _, _)
\* mutant: the second recursive call starts from the source, not the auxiliary
hanoi_solver_swapped(k, source, destination, auxiliary) ==
    IF k > 0
    THEN hanoi_solver_swapped(k - 1, source, auxiliary, destination)
         \o << <<source, destination>> >>
         \o hanoi_solver_swapped(k - 1, source, destination, auxiliary)
    ELSE << >>

RECURSIVE hanoi_solver_short(_, _, _, _)
\* mutant: the recursion stops one level early (n > 1 for n > 0)
hanoi_solver_short(k, source, destination, auxiliary) ==
    IF k > 1
    THEN hanoi_solver_short(k - 1, source, auxiliary, destination)
         \o << <<source, destination>> >>
         \o hanoi_solver_short(k - 1, auxiliary, destination, source)
    ELSE << >>

RECURSIVE hanoi_solver(_, _, _, _)
hanoi_solver(k, source, destination, auxiliary) ==
    IF k > 0
    THEN hanoi_solver(k - 1, source, auxiliary, destination)
         \o << <<source, destination>> >>
         \o hanoi_solver(k - 1, auxiliary, destination, source)
    ELSE << >>

(***************************************************************************)
(* graphics.py: the legality test of a drop (is_valid, line 337) and the   *)
(* pick-up test (line 321).                                                *)
(***************************************************************************)
\* mutant: the comparison is reversed
IsValidReversed(tw, target_idx, disk) ==
    /\ target_idx # None
    /\ (IF IsEmpty(tw[target_idx]) THEN TRUE ELSE disk > Top(tw[target_idx]))

IsValid(tw, target_idx, disk) ==
    /\ target_idx # None
    /\ (IF IsEmpty(tw[target_idx]) THEN TRUE ELSE disk < Top(tw[target_idx]))

\* a move (src, dest) of the top disk of src, judged by the two tests
LegalMove(tw, src, dest) ==
    /\ ~IsEmpty(tw[src])
    /\ IsValid(tw, dest, Top(tw[src]))

\* pop src, append to dest
MoveDisk(tw, src, dest) ==
    LET popped == [tw EXCEPT ![src] = Pop(@)]
    IN  [popped EXCEPT ![dest] = Append(@, Top(tw[src]))]

\* all k disks on tower src, the others empty
AllOn(k, src) == [i \in Towers |-> IF i = src THEN Descending(k) ELSE << >>]

(***************************************************************************)
(* Harness of hanoi_solver: one call on inputs drawn from bounded sets,    *)
(* then the replay of the returned list, one move per step, from the       *)
(* position with all n disks on the source. A move the legality test       *)
(* refuses stops the replay in pc = "rejected".                            *)
(***************************************************************************)
\* the (source, destination, auxiliary) triples of distinct towers
Triples == {t \in Towers \X Towers \X Towers :
                t[1] # t[2] /\ t[1] # t[3] /\ t[2] # t[3]}

RunIdle == [n |-> 0, source |-> 0, destination |-> 2, auxiliary |-> 1,
            pc |-> "idle", solution |-> << >>, idx |-> 0, towers |-> AllOn(0, 0)]

RunInit ==
    \E k \in 0 .. MaxN, t \in Triples :
        run = [n |-> k, source |-> t[1], destination |-> t[2], auxiliary |-> t[3],
               pc |-> "call", solution |-> << >>, idx |-> 0,
               towers |-> AllOn(k, t[1])]

\* solution = hanoi_solver(n, source, destination, auxiliary)
SolverCall ==
    /\ run.pc = "call"
    /\ run' = [run EXCEPT
                 !.solution = hanoi_solver(run.n, run.source, run.destination,
                                           run.auxiliary),
                 !.pc = "replay"]

\* the next move of the list, applied if the legality test accepts it
ReplayMove ==
    /\ run.pc = "replay"
    /\ run.idx < Len(run.solution)
    /\ LET src  == run.solution[run.idx + 1][1]
           dest == run.solution[run.idx + 1][2]
       IN  IF LegalMove(run.towers, src, dest)
           THEN run' = [run EXCEPT !.towers = MoveDisk(run.towers, src, dest),
                                   !.idx = run.idx + 1]
           ELSE run' = [run EXCEPT !.pc = "rejected"]

(***************************************************************************)
(* Exhaustive play: every sequence of legal moves of at most 2^n - 1 moves *)
(* from the position with all n disks on the source. on_solution records   *)
(* whether the moves played so far are a prefix of the solver's list.      *)
(***************************************************************************)
SearchIdle == [n |-> 0, source |-> 0, destination |-> 2, auxiliary |-> 1,
               solution |-> << >>, towers |-> AllOn(0, 0), steps |-> 0,
               on_solution |-> TRUE]

SearchInit ==
    \E k \in 0 .. MaxSearchN, t \in Triples :
        search = [n |-> k, source |-> t[1], destination |-> t[2],
                  auxiliary |-> t[3],
                  solution |-> hanoi_solver(k, t[1], t[2], t[3]),
                  towers |-> AllOn(k, t[1]), steps |-> 0, on_solution |-> TRUE]

SearchMove(src, dest) ==
    /\ src # dest
    /\ search.steps < Pow2(search.n) - 1
    /\ LegalMove(search.towers, src, dest)
    /\ search' = [search EXCEPT
                    !.towers = MoveDisk(search.towers, src, dest),
                    !.steps = search.steps + 1,
                    !.on_solution =
                        /\ search.on_solution
                        /\ search.steps + 1 <= Len(search.solution)
                        /\ search.solution[search.steps + 1] = <<src, dest>>]

(***************************************************************************)
(* HanoiGUI (graphics.py).                                                 *)
(***************************************************************************)
\* The disk counts given to setup_get_name. The menu buttons give 3..8;
\* setup_get_name and setup_game take any integer and raise it to at least 1
\* (max(1, num_disks)), and the rules of play do not depend on the count, so
\* the model starts games of 1..MaxDisks disks, which keep several games and
\* complete plays within reach of an exhaustive exploration.
DiskChoices == 1 .. MaxDisks

\* (pygame.time.get_ticks() - start_time) / 1000: the clock is not modelled,
\* every reading is the same abstract value
time_taken == "elapsed"

harness == <<run, search, grid, bulk, change, boot>>

\* the two files written by save_scoreboard and save_move_history
files == <<scoreboard_json, move_history_json>>

Max(a, b) == IF a >= b THEN a ELSE b

\* __init__ followed by load_scoreboard, load_move_history and setup_menu,
\* with no file or with files that hold the empty list (both load as []);
\* self.moves is first assigned by setup_game and is 0 here
GuiInit ==
    /\ game_state = "menu"
    /\ n = 0
    /\ min_moves = 0
    /\ moves = 0
    /\ animating = FALSE
    /\ towers = << >>
    /\ dragging_disk = NoDisk
    /\ source_tower_idx = -1
    /\ is_solver_used = FALSE
    /\ move_history = << >>
    /\ game_id = 1
    /\ pending_disks = 0
    /\ player_name = ""
    /\ scores = << >>
    /\ full_move_history = << >>
    /\ scoreboard_json = << >>
    /\ move_history_json = << >>
    /\ last_sound = "none"
    /\ solution = << >>
    /\ anim_idx = 0

\* mutant: the new game keeps the identifier of the game before
setup_get_name_same_id(num_disks) ==
    /\ game_state' = "get_name"
    /\ pending_disks' = Max(1, num_disks)
    /\ move_history' = << >>
    /\ game_id' = game_id

\* mutant: the move history of the game before is kept
setup_get_name_keeps_history(num_disks) ==
    /\ game_state' = "get_name"
    /\ pending_disks' = Max(1, num_disks)
    /\ move_history' = move_history
    /\ game_id' = game_id + 1

\* setup_get_name(num_disks)
setup_get_name(num_disks) ==
    /\ game_state' = "get_name"
    /\ pending_disks' = Max(1, num_disks)
    /\ move_history' = << >>
    /\ game_id' = game_id + 1

\* mutant: the count is not capped at 8
ClampDisksNoCap(num_disks) == Max(1, num_disks)

\* the n that setup_game(num_disks) sets
ClampDisks(num_disks) ==
    IF Max(1, num_disks) > 8 THEN 8 ELSE Max(1, num_disks)

\* setup_game(num_disks)
setup_game(num_disks) ==
    /\ game_state' = "game"
    /\ n' = ClampDisks(num_disks)
    /\ min_moves' = Pow2(n') - 1
    /\ moves' = 0
    /\ animating' = FALSE
    /\ towers' = AllOn(n', 0)
    /\ dragging_disk' = NoDisk
    /\ is_solver_used' = FALSE

\* mutant: a tower that lacks one disk counts as a win
WinConditionEarly(tw) ==
    /\ DOMAIN tw = Towers
    /\ (Len(tw[1]) >= n - 1 \/ Len(tw[2]) >= n - 1)

\* mutant: only the right-hand tower counts as a win
WinConditionRightOnly(tw) == Len(tw[2]) = n

\* the condition of check_win (line 668)
WinCondition(tw) ==
    /\ DOMAIN tw = Towers
    /\ (Len(tw[1]) = n \/ Len(tw[2]) = n)

\* mutant: only the new entry is written
save_scoreboard_last(new_scores) == << new_scores[Len(new_scores)] >>

\* save_scoreboard: the content of scoreboard.json after json.dump of the
\* list new_scores
save_scoreboard(new_scores) == new_scores

\* mutant: the score is appended whether or not the solver was used
ScoresWonAlways(mv) ==
    Append(scores, [name |-> player_name, disks |-> n,
                    time |-> time_taken, moves |-> mv])

\* self.scores after a win with the counter at mv (lines 672-673)
ScoresWon(mv) ==
    IF ~is_solver_used
    THEN Append(scores, [name |-> player_name, disks |-> n,
                         time |-> time_taken, moves |-> mv])
    ELSE scores

\* check_win, called with the towers, the counter and the history that the
\* calling handler has just set, and the last sound played so far; each
\* save_... writes the whole list to its file (a failing write is not
\* modelled)
check_win(tw, mv, hist, snd) ==
    IF WinCondition(tw) /\ game_state # "win"
    THEN /\ game_state' = "win"
         /\ last_sound' = "win"
         /\ scores' = ScoresWon(mv)
         /\ scoreboard_json' =
               IF ~is_solver_used
               THEN save_scoreboard(scores')
               ELSE scoreboard_json
         /\ full_move_history' =
               Append(full_move_history,
                      [game_id |-> game_id, player_name |-> player_name,
                       disks |-> n, moves |-> hist, time |-> time_taken])
         /\ move_history_json' = full_move_history'
    ELSE /\ last_sound' = snd
         /\ UNCHANGED <<game_state, scores, full_move_history, files>>

----
\* handle_menu_events: a click on the button of k disks
ClickDisk(k) ==
    /\ game_state = "menu"
    /\ setup_get_name(k)
    /\ UNCHANGED <<n, min_moves, moves, animating, towers, dragging_disk,
                   source_tower_idx, is_solver_used, player_name, scores,
                   full_move_history, solution, anim_idx>>
    /\ last_sound' = "drop"
    /\ UNCHANGED files
    /\ UNCHANGED harness

\* ... while fewer than MaxGames games have been started
MenuClickDisk(k) == game_id <= MaxGames /\ ClickDisk(k)

\* ... while fewer than MaxSessionGames games have been started
SessionClickDisk(k) == game_id <= MaxSessionGames /\ ClickDisk(k)

\* ... while no game has been started
PlayClickDisk(k) == game_id = 1 /\ ClickDisk(k)

\* the screens opened by the other menu buttons; the button named 'solver?'
\* matches no branch of the handler
MenuTarget(name) ==
    CASE name = "scoreboard" -> "scoreboard"
      [] name = "how_to_play" -> "how_to_play"
      [] name = "solver_explanation" -> "solver_explanation"
      [] OTHER -> "menu"

MenuClick(name) ==
    /\ game_state = "menu"
    /\ game_state' = MenuTarget(name)
    /\ UNCHANGED <<n, min_moves, moves, animating, towers, dragging_disk,
                   source_tower_idx, is_solver_used, move_history, game_id,
                   pending_disks, player_name, scores, full_move_history,
                   solution, anim_idx>>
    /\ last_sound' = "drop"
    /\ UNCHANGED files
    /\ UNCHANGED harness

\* handle_get_name_events: Enter with a non-empty name typed
GetNameEnter(name) ==
    /\ game_state = "get_name"
    /\ player_name' = name
    /\ setup_game(pending_disks)
    /\ UNCHANGED <<source_tower_idx, move_history, game_id, pending_disks,
                   scores, full_move_history, solution, anim_idx>>
    /\ last_sound' = "drop"
    /\ UNCHANGED files
    /\ UNCHANGED harness

\* handle_win_events: any key or click opens the scoreboard
WinContinue ==
    /\ game_state = "win"
    /\ game_state' = "scoreboard"
    /\ UNCHANGED <<n, min_moves, moves, animating, towers, dragging_disk,
                   source_tower_idx, is_solver_used, move_history, game_id,
                   pending_disks, player_name, scores, full_move_history,
                   solution, anim_idx>>
    /\ UNCHANGED last_sound
    /\ UNCHANGED files
    /\ UNCHANGED harness

\* handle_scoreboard_events, handle_how_to_play_events,
\* handle_solver_explanation_events, handle_history_events: 'back_menu'
BackToMenu ==
    /\ game_state \in {"scoreboard", "how_to_play", "solver_explanation", "history"}
    /\ game_state' = "menu"
    /\ UNCHANGED <<n, min_moves, moves, animating, towers, dragging_disk,
                   source_tower_idx, is_solver_used, move_history, game_id,
                   pending_disks, player_name, scores, full_move_history,
                   solution, anim_idx>>
    /\ last_sound' = "drop"
    /\ UNCHANGED files
    /\ UNCHANGED harness

----
\* mutant: the handler does not return while the animation runs
InGameAnimating == game_state = "game"

\* handle_game_events is entered only while no animation runs: the events
\* that arrive during start_animation are consumed by its own loop
InGame == game_state = "game" /\ ~animating

\* MOUSEBUTTONDOWN on 'Menu', 'Historique' or 'Solveur?' with no disk held
GameTarget(name) ==
    CASE name = "back" -> "menu"
      [] name = "history" -> "history"
      [] name = "solver_explanation" -> "solver_explanation"

GameClickButton(name) ==
    /\ InGame
    /\ dragging_disk = NoDisk
    /\ game_state' = GameTarget(name)
    /\ UNCHANGED <<n, min_moves, moves, animating, towers, dragging_disk,
                   source_tower_idx, is_solver_used, move_history, game_id,
                   pending_disks, player_name, scores, full_move_history,
                   solution, anim_idx>>
    /\ last_sound' = "drop"
    /\ UNCHANGED files
    /\ UNCHANGED harness

\* MOUSEBUTTONDOWN on the top disk of tower i with no disk held
Lift(i) ==
    /\ InGame
    /\ dragging_disk = NoDisk
    /\ ~IsEmpty(towers[i])
    /\ source_tower_idx' = i
    /\ dragging_disk' = Top(towers[i])
    /\ towers' = [towers EXCEPT ![i] = Pop(@)]
    /\ UNCHANGED <<game_state, n, min_moves, moves, animating, is_solver_used,
                   move_history, game_id, pending_disks, player_name, scores,
                   full_move_history, solution, anim_idx>>
    /\ last_sound' = "pickup"
    /\ UNCHANGED files
    /\ UNCHANGED harness

\* ... while the move counter is below MaxMoves
PickUp(i) == moves < MaxMoves /\ Lift(i)

\* ... while the move counter is at most the minimum 2^n - 1 of the game
PlayPickUp(i) == moves < Pow2(n) /\ Lift(i)

\* mutant: the tower indices are recorded as they are, 0-based
HistoryEntryZeroBased(src, dest) == [source |-> src, destination |-> dest]

\* the entry of move_history for a move from tower src to tower dest
\* (lines 342 and 627)
HistoryEntry(src, dest) == [source |-> src + 1, destination |-> dest + 1]

\* mutant: a refused disk is not put back on its source tower
DropTowersLost(target_idx) ==
    IF IsValid(towers, target_idx, dragging_disk)
    THEN [towers EXCEPT ![target_idx] = Append(@, dragging_disk)]
    ELSE towers

\* the towers after the held disk is released over target_idx
\* (get_tower_at: a tower index, or None outside every tower)
DropTowers(target_idx) ==
    IF IsValid(towers, target_idx, dragging_disk)
    THEN [towers EXCEPT ![target_idx] = Append(@, dragging_disk)]
    ELSE [towers EXCEPT ![source_tower_idx] = Append(@, dragging_disk)]

\* mutant: a disk put back on its own tower is counted too
DropCountedAlways(target_idx) == IsValid(towers, target_idx, dragging_disk)

\* whether the release is counted as a move
DropCounted(target_idx) ==
    /\ IsValid(towers, target_idx, dragging_disk)
    /\ source_tower_idx # target_idx

\* the sound of the release: 'drop' if accepted, 'invalid' if refused over a
\* tower, none if refused outside every tower
DropSound(target_idx) ==
    IF IsValid(towers, target_idx, dragging_disk) THEN "drop"
    ELSE IF target_idx # None THEN "invalid"
    ELSE last_sound

\* MOUSEBUTTONUP while a disk is held. get_tower_at returns None or an index
\* of tower_rects, so the 'Invalid target_idx' branch (lines 329-336) is
\* never taken.
MouseUp(target_idx) ==
    /\ InGame
    /\ dragging_disk # NoDisk
    /\ towers' = DropTowers(target_idx)
    /\ moves' = IF DropCounted(target_idx) THEN moves + 1 ELSE moves
    /\ move_history' =
          IF DropCounted(target_idx)
          THEN Append(move_history, HistoryEntry(source_tower_idx, target_idx))
          ELSE move_history
    /\ dragging_disk' = NoDisk
    /\ check_win(towers', moves', move_history', DropSound(target_idx))
    /\ UNCHANGED <<n, min_moves, animating, source_tower_idx, is_solver_used,
                   game_id, pending_disks, player_name, solution, anim_idx>>
    /\ UNCHANGED harness

----
\* start_animation, up to the first poll of the event queue:
\* MOUSEBUTTONDOWN on 'Solution' with no disk held
GameClickSolve ==
    /\ InGame
    /\ dragging_disk = NoDisk
    /\ animating' = TRUE
    /\ is_solver_used' = TRUE
    /\ move_history' = << >>
    /\ moves' = 0
    /\ solution' = hanoi_solver(n, 0, 2, 1)
    /\ anim_idx' = 0
    /\ UNCHANGED <<game_state, n, min_moves, towers, dragging_disk,
                   source_tower_idx, game_id, pending_disks, player_name,
                   scores, full_move_history>>
    /\ last_sound' = "drop"
    /\ UNCHANGED files
    /\ UNCHANGED harness

\* mutant: the popped disk is not put on the destination tower
AnimTowersLost(src, dest) ==
    IF IsEmpty(towers[src]) THEN towers ELSE [towers EXCEPT ![src] = Pop(@)]

\* the towers after one iteration of the loop: nothing if the source tower is
\* empty, else its top disk popped and appended to the destination tower
AnimTowers(src, dest) ==
    IF IsEmpty(towers[src]) THEN towers ELSE MoveDisk(towers, src, dest)

\* one iteration of the loop over the solution with no click on 'Arreter';
\* after the last one, the lines that follow the loop. The moves of
\* hanoi_solver(n, 0, 2, 1) are pairs of 0, 1, 2, so the index test of
\* lines 600-607 always passes. Other events polled by the loop are dropped.
AnimStep ==
    /\ animating
    /\ anim_idx < Len(solution)
    /\ LET src   == solution[anim_idx + 1][1]
           dest  == solution[anim_idx + 1][2]
           moved == ~IsEmpty(towers[src])
           last  == anim_idx + 1 = Len(solution)
       IN  /\ towers' = AnimTowers(src, dest)
           /\ moves' = IF moved THEN moves + 1 ELSE moves
           /\ move_history' =
                 IF moved
                 THEN Append(move_history, HistoryEntry(src, dest))
                 ELSE move_history
           /\ IF last
              THEN /\ animating' = FALSE
                   /\ solution' = << >>
                   /\ anim_idx' = 0
                   /\ check_win(towers', moves', move_history', last_sound)
              ELSE /\ anim_idx' = anim_idx + 1
                   /\ UNCHANGED <<animating, solution, game_state, scores,
                                  full_move_history, files, last_sound>>
    /\ UNCHANGED <<n, min_moves, dragging_disk, source_tower_idx,
                   is_solver_used, game_id, pending_disks, player_name>>
    /\ UNCHANGED harness

\* a click on 'Arreter' polled at the start of an iteration
AnimStop ==
    /\ animating
    /\ anim_idx < Len(solution)
    /\ animating' = FALSE
    /\ solution' = << >>
    /\ anim_idx' = 0
    /\ UNCHANGED <<game_state, n, min_moves, moves, towers, dragging_disk,
                   source_tower_idx, is_solver_used, move_history, game_id,
                   pending_disks, player_name, scores, full_move_history>>
    /\ last_sound' = "invalid"
    /\ UNCHANGED files
    /\ UNCHANGED harness

----
(***************************************************************************)
(* HanoiGUI.__init__ (lines 23-63): the attributes get their defaults,     *)
(* then load_scoreboard, load_move_history and setup_menu are called. An   *)
(* exception that leaves one of them is logged and raised again, and the   *)
(* program ends before its main loop.                                      *)
(*                                                                         *)
(* What open(path, 'r') and json.load find at a path: no file ("missing"), *)
(* text that is no JSON document ("garbled"), bytes that are no text in    *)
(* the encoding of open, UTF-8 by default ("undecodable": the read inside  *)
(* json.load raises), or a JSON list ("list"). JSON documents that are no  *)
(* list are left out.                                                      *)
(***************************************************************************)
FileKinds == {"missing", "garbled", "undecodable", "list"}

\* the lists found in scoreboard.json: entries of earlier runs
StoredScores ==
    {[i \in 1 .. k |-> [name |-> "ana", disks |-> 3, time |-> time_taken,
                        moves |-> 7 + i]] : k \in 0 .. MaxStored}

\* the lists found in move_history.json: entries of earlier runs, whose
\* game_id is that of no game of this run
StoredGames ==
    {[i \in 1 .. k |-> [game_id |-> 0 - i, player_name |-> "ana", disks |-> 1,
                        moves |-> << [source |-> 1, destination |-> 3] >>,
                        time |-> time_taken]] : k \in 0 .. MaxStored}

\* the exception raised by 'with open(path, 'r') as f: json.load(f)'
LoadError(kind) ==
    CASE kind = "missing" -> "FileNotFoundError"
      [] kind = "garbled" -> "JSONDecodeError"
      [] kind = "undecodable" -> "UnicodeDecodeError"
      [] kind = "list" -> "none"

\* except (FileNotFoundError, json.JSONDecodeError)
Caught == {"FileNotFoundError", "JSONDecodeError"}

\* the program after __init__ returned: the main loop runs
BootDone ==
    [pc |-> "running", scoreboard_file |-> "list",
     move_history_file |-> "list", raised |-> "none"]

\* __init__ up to the call of load_scoreboard (lines 23-53), with the two
\* files as they are found
StartInit ==
    /\ game_state = ""
    /\ n = 0
    /\ min_moves = 0
    /\ moves = 0
    /\ animating = FALSE
    /\ towers = << >>
    /\ dragging_disk = NoDisk
    /\ source_tower_idx = -1
    /\ is_solver_used = FALSE
    /\ move_history = << >>
    /\ game_id = 1
    /\ pending_disks = 0
    /\ player_name = ""
    /\ scores = << >>
    /\ full_move_history = << >>
    /\ last_sound = "none"
    /\ solution = << >>
    /\ anim_idx = 0
    /\ \E sk \in FileKinds, hk \in FileKinds :
          /\ boot = [pc |-> "load_scoreboard", scoreboard_file |-> sk,
                     move_history_file |-> hk, raised |-> "none"]
          /\ scoreboard_json \in (IF sk = "list" THEN StoredScores ELSE {<< >>})
          /\ move_history_json \in (IF hk = "list" THEN StoredGames ELSE {<< >>})

\* the list a load_... method assigns when it does not raise: the list of
\* the file, or [] in the except clause
Loaded(kind, data) == IF LoadError(kind) = "none" THEN data ELSE << >>

\* whether the exception leaves the load_... method
Escapes(kind) == LoadError(kind) \notin Caught \cup {"none"}

\* load_scoreboard (lines 89-92), called by __init__
InitLoadScoreboard ==
    /\ boot.pc = "load_scoreboard"
    /\ IF Escapes(boot.scoreboard_file)
       THEN /\ boot' = [boot EXCEPT !.pc = "raised",
                                    !.raised = LoadError(boot.scoreboard_file)]
            /\ scores' = scores
       ELSE /\ boot' = [boot EXCEPT !.pc = "load_move_history"]
            /\ scores' = Loaded(boot.scoreboard_file, scoreboard_json)
    /\ UNCHANGED <<game_state, n, min_moves, moves, animating, towers,
                   dragging_disk, source_tower_idx, is_solver_used,
                   move_history, game_id, pending_disks, player_name,
                   full_move_history, last_sound, solution, anim_idx>>
    /\ UNCHANGED files
    /\ UNCHANGED <<run, search, grid, bulk, change>>

\* load_move_history (lines 94-97), called by __init__
InitLoadMoveHistory ==
    /\ boot.pc = "load_move_history"
    /\ IF Escapes(boot.move_history_file)
       THEN /\ boot' = [boot EXCEPT !.pc = "raised",
                                    !.raised = LoadError(boot.move_history_file)]
            /\ full_move_history' = full_move_history
       ELSE /\ boot' = [boot EXCEPT !.pc = "setup_menu"]
            /\ full_move_history' =
                  Loaded(boot.move_history_file, move_history_json)
    /\ UNCHANGED <<game_state, n, min_moves, moves, animating, towers,
                   dragging_disk, source_tower_idx, is_solver_used,
                   move_history, game_id, pending_disks, player_name,
                   scores, last_sound, solution, anim_idx>>
    /\ UNCHANGED files
    /\ UNCHANGED <<run, search, grid, bulk, change>>

\* setup_menu (line 56), called by __init__, which then returns
InitSetupMenu ==
    /\ boot.pc = "setup_menu"
    /\ boot' = [boot EXCEPT !.pc = "running"]
    /\ game_state' = "menu"
    /\ UNCHANGED <<n, min_moves, moves, animating, towers, dragging_disk,
                   source_tower_idx, is_solver_used, move_history, game_id,
                   pending_disks, player_name, scores, full_move_history,
                   last_sound, solution, anim_idx>>
    /\ UNCHANGED files
    /\ UNCHANGED <<run, search, grid, bulk, change>>

----
(***************************************************************************)
(* Prediction_app_improved3.py: process_bulk_upload(file).                 *)
(*                                                                         *)
(* file is what pd.read_csv is given: a path, which every read_csv opens   *)
(* anew, or a file object (the UploadedFile of st.file_uploader, line 722, *)
(* an io.BytesIO), which read_csv reads from its current position to its   *)
(* end and does not rewind. The table of the file is its header (a set of  *)
(* column names) and its rows; of a row the model keeps the value of       *)
(* pdays. Probabilities are counts of hundredths. model.predict_proba is   *)
(* outside the repository: it returns one probability per row, drawn at    *)
(* the call, or raises.                                                    *)
(***************************************************************************)
RAW_FEATURE_COLUMNS ==
    <<"age", "job", "marital", "education", "default", "balance", "housing",
      "loan", "contact", "day", "month", "duration", "campaign", "pdays",
      "previous", "poutcome">>

\* 0.50
SUCCESS_THRESHOLD == 50

Required == {RAW_FEATURE_COLUMNS[i] : i \in 1 .. Len(RAW_FEATURE_COLUMNS)}

\* the headers of the uploaded tables: the required columns but at most
\* MaxMissing of them, with or without a column of the client's own
Headers ==
    {(Required \ gone) \cup extra :
        gone \in {g \in SUBSET Required : Cardinality(g) <= MaxMissing},
        extra \in {{}, {"client_id"}}}

\* the rows of the uploaded tables (at least one), by their value of pdays
RowLists ==
    UNION {[1 .. k -> {-1, 5}] : k \in 1 .. MaxRows}

\* probabilities returned for a row: 0.0, 0.49, 0.50, 0.51, 1.0
RowProbs == {0, 49, 50, 51, 100}

BulkIdle ==
    [pc |-> "idle", kind |-> "path", parsable |-> TRUE, consumed |-> FALSE,
     header |-> {}, rows |-> << >>, df_columns |-> {}, df_rows |-> << >>,
     calls |-> 0, error |-> << >>, returned |-> FALSE,
     output_columns |-> {}, output_rows |-> << >>]

\* process_bulk_upload(file) entered
BulkInit ==
    \E kind \in {"path", "buffer"}, parsable \in BOOLEAN,
       header \in Headers, rows \in RowLists :
        bulk = [BulkIdle EXCEPT !.pc = "read", !.kind = kind,
                                !.parsable = parsable, !.header = header,
                                !.rows = rows]

\* pd.read_csv(file): "ParserError" for a file that is no CSV table,
\* "EmptyDataError" for a file object that was read to its end, else "ok"
read_csv(b) ==
    IF ~b.parsable THEN "ParserError"
    ELSE IF b.kind = "buffer" /\ b.consumed THEN "EmptyDataError"
    ELSE "ok"

\* the file after pd.read_csv(file)
AfterRead(b) ==
    IF b.kind = "buffer" THEN [b EXCEPT !.consumed = TRUE] ELSE b

RECURSIVE missing_first(_, _)
\* mutant: only the first missing column is kept
missing_first(columns, i) ==
    IF i > Len(RAW_FEATURE_COLUMNS) THEN << >>
    ELSE IF RAW_FEATURE_COLUMNS[i] \notin columns
    THEN << RAW_FEATURE_COLUMNS[i] >>
    ELSE missing_first(columns, i + 1)

RECURSIVE missing_cols(_, _)
\* [col for col in RAW_FEATURE_COLUMNS if col not in df.columns], from the
\* i-th required column on (line 223)
missing_cols(columns, i) ==
    IF i > Len(RAW_FEATURE_COLUMNS) THEN << >>
    ELSE IF RAW_FEATURE_COLUMNS[i] \notin columns
    THEN << RAW_FEATURE_COLUMNS[i] >> \o missing_cols(columns, i + 1)
    ELSE missing_cols(columns, i + 1)

\* the except clauses of lines 233-238: an error is shown, None is returned
Failed(b, message) ==
    [b EXCEPT !.pc = "done", !.error = message, !.returned = FALSE]

\* lines 222-227: the first read_csv, the test of the columns, and the
\* column was_contacted_before added to df
BulkRead ==
    /\ bulk.pc = "read"
    /\ LET b == AfterRead(bulk)
       IN  bulk' =
             IF read_csv(bulk) = "ParserError"
             THEN Failed(b, << "not a CSV" >>)
             ELSE IF read_csv(bulk) # "ok"
             THEN Failed(b, << "unexpected", read_csv(bulk) >>)
             ELSE IF missing_cols(bulk.header, 1) # << >>
             THEN Failed(b, << "missing columns" >>
                               \o missing_cols(bulk.header, 1))
             ELSE [b EXCEPT
                     !.pc = "score",
                     !.df_columns = bulk.header \cup {"was_contacted_before"},
                     !.df_rows = [i \in 1 .. Len(bulk.rows) |->
                                    [pdays |-> bulk.rows[i],
                                     was_contacted_before |->
                                        IF bulk.rows[i] # -1 THEN "Yes"
                                        ELSE "No"]]]

\* line 231: np.where(probability >= SUCCESS_THRESHOLD, ...)
Recommendation(probability) ==
    IF probability >= SUCCESS_THRESHOLD THEN "Prioritize" ELSE "De-prioritize"

\* lines 228-232: predict_proba returns probabilities, the file is read a
\* second time into output_df, and the two columns are added to it
BulkScored(probabilities) ==
    /\ bulk.pc = "score"
    /\ LET called == [bulk EXCEPT !.calls = @ + 1]
           b      == AfterRead(called)
       IN  bulk' =
             IF read_csv(called) # "ok"
             THEN Failed(b, << "unexpected", read_csv(called) >>)
             ELSE [b EXCEPT
                     !.pc = "done",
                     !.returned = TRUE,
                     !.output_columns =
                        bulk.header \cup {"Subscription Probability",
                                          "Recommendation"},
                     !.output_rows =
                        [i \in 1 .. Len(bulk.rows) |->
                           [pdays |-> bulk.rows[i],
                            probability |-> probabilities[i],
                            recommendation |->
                               Recommendation(probabilities[i])]]]

\* line 228: predict_proba raises
BulkScoreFailed ==
    /\ bulk.pc = "score"
    /\ bulk' = Failed([bulk EXCEPT !.calls = @ + 1],
                      << "unexpected", "predict_proba" >>)

(***************************************************************************)
(* Prediction_app.py: recommend_for_non_subscriber, the grid search over   *)
(* the campaign parameters (the same loop is written a second time in the  *)
(* 'Optimal Client Strategy' handler, lines 265-316, on a fixed base).     *)
(*                                                                         *)
(* A Python dict is a function from its keys; {} is << >>. A number is an  *)
(* integer count of hundredths: the probability 1.0 is 100, the confidence *)
(* 100.0 (percent) is 10000. model.predict_proba is outside the            *)
(* repository: each call returns a probability or raises, drawn at the     *)
(* call from Probs and Failures.                                           *)
(***************************************************************************)
contact_options == <<"cellular", "telephone", "unknown">>

month_options == <<"jan", "feb", "mar", "apr", "may", "jun",
                   "jul", "aug", "sep", "oct", "nov", "dec">>

duration_options == <<100, 300, 500, 1000, 1500>>

campaign_options == <<1, 2, 3, 5, 7>>

poutcome_options == <<"success", "failure", "other", "unknown">>

Min(a, b) == IF a <= b THEN a ELSE b

\* the options of a list that the model scans: its first MaxOptions entries
Scanned(options) == SubSeq(options, 1, Min(Len(options), MaxOptions))

\* str.capitalize() on the entries of month_options
Capitalize(month) ==
    CASE month = "jan" -> "Jan" [] month = "feb" -> "Feb"
      [] month = "mar" -> "Mar" [] month = "apr" -> "Apr"
      [] month = "may" -> "May" [] month = "jun" -> "Jun"
      [] month = "jul" -> "Jul" [] month = "aug" -> "Aug"
      [] month = "sep" -> "Sep" [] month = "oct" -> "Oct"
      [] month = "nov" -> "Nov" [] month = "dec" -> "Dec"

\* probabilities that predict_proba(...)[0][1] returns: 0.0, 0.5, 1.0
Probs == {0, 50, 100}

\* exceptions that predict_proba raises
Failures == {"AttributeError", "ValueError"}

\* the base record of the call: the sample client of the strategy handler
\* (lines 275-287)
BaseInputs ==
    {[k \in {"age", "job", "marital", "education", "default", "balance",
             "housing", "loan", "day", "pdays", "previous"} |->
        CASE k = "age" -> 40 [] k = "job" -> "management"
          [] k = "marital" -> "single" [] k = "education" -> "tertiary"
          [] k = "default" -> "no" [] k = "balance" -> 5000
          [] k = "housing" -> "no" [] k = "loan" -> "no"
          [] k = "day" -> 15 [] k = "pdays" -> -1
          [] k = "previous" -> 0]}

\* the candidate of the current iteration of the five nested loops
Candidate(g) ==
    [contact  |-> Scanned(contact_options)[g.contact_i],
     month    |-> Scanned(month_options)[g.month_i],
     duration |-> Scanned(duration_options)[g.duration_i],
     campaign |-> Scanned(campaign_options)[g.campaign_i],
     poutcome |-> Scanned(poutcome_options)[g.poutcome_i]]

\* input_dict = base_input.copy(); input_dict.update({...})
InputDict(base_input, c) ==
    [k \in {"contact", "month", "duration", "campaign", "poutcome"} |->
        CASE k = "contact" -> c.contact [] k = "month" -> c.month
          [] k = "duration" -> c.duration [] k = "campaign" -> c.campaign
          [] k = "poutcome" -> c.poutcome] @@ base_input

\* create_input_df: the row, with the column was_contacted_before added
create_input_df(input_dict) ==
    [k \in {"was_contacted_before"} |->
        IF input_dict["pdays"] = -1 THEN "No" ELSE "Yes"] @@ input_dict

\* mutant: the candidate is compared with the initial floor, not the best
BetterThanFloor(confidence, best_confidence) == confidence > 0

\* mutant: a candidate that equals the best replaces it
BetterOrEqual(confidence, best_confidence) == confidence >= best_confidence

\* the test of line 142
Better(confidence, best_confidence) == confidence > best_confidence

\* mutant: the month is stored as it was given
StoredParamsRaw(c) ==
    [k \in {"Contact Type", "Month", "Call Duration (seconds)",
            "Number of Contacts", "Previous Campaign Outcome"} |->
        CASE k = "Contact Type" -> c.contact
          [] k = "Month" -> c.month
          [] k = "Call Duration (seconds)" -> c.duration
          [] k = "Number of Contacts" -> c.campaign
          [] k = "Previous Campaign Outcome" -> c.poutcome]

\* the dict stored as best_params for candidate c (lines 144-150)
StoredParams(c) ==
    [k \in {"Contact Type", "Month", "Call Duration (seconds)",
            "Number of Contacts", "Previous Campaign Outcome"} |->
        CASE k = "Contact Type" -> c.contact
          [] k = "Month" -> Capitalize(c.month)
          [] k = "Call Duration (seconds)" -> c.duration
          [] k = "Number of Contacts" -> c.campaign
          [] k = "Previous Campaign Outcome" -> c.poutcome]

\* line 141: confidence = probability * 100
Confidence(proba) == proba * 100

\* The call: the locals of recommend_for_non_subscriber, and what the call
\* has done so far. submitted lists the candidates whose row was given to
\* predict_proba, last_row is the latest of these rows;
\* max_seen is the largest probability returned so far (-1: none) and
\* first_max the first candidate it was returned for; ones counts the
\* candidates that got 1.0 (2: two or more), one_cand is the first of them,
\* rest_zero tells that every other call returned 0.0; all_failed tells that
\* every call raised.
GridIdle ==
    [pc |-> "idle", base_input |-> << >>, contact_i |-> 1, month_i |-> 1,
     duration_i |-> 1, campaign_i |-> 1, poutcome_i |-> 1,
     best_confidence |-> 0, best_params |-> << >>, raised |-> "none",
     submitted |-> << >>, last_row |-> << >>, max_seen |-> -1, first_max |-> << >>,
     ones |-> 0, one_cand |-> << >>, rest_zero |-> TRUE, all_failed |-> TRUE]

\* recommend_for_non_subscriber(base_input) entered: lines 116-123
GridInit ==
    \E b \in BaseInputs :
        grid = [GridIdle EXCEPT !.pc = "scan", !.base_input = b]

\* the loop variables after the current iteration: the innermost loop
\* advances, an exhausted loop restarts and the one around it advances
Advance(g) ==
    IF g.poutcome_i < Len(Scanned(poutcome_options))
    THEN [g EXCEPT !.poutcome_i = @ + 1]
    ELSE IF g.campaign_i < Len(Scanned(campaign_options))
    THEN [g EXCEPT !.campaign_i = @ + 1, !.poutcome_i = 1]
    ELSE IF g.duration_i < Len(Scanned(duration_options))
    THEN [g EXCEPT !.duration_i = @ + 1, !.campaign_i = 1, !.poutcome_i = 1]
    ELSE IF g.month_i < Len(Scanned(month_options))
    THEN [g EXCEPT !.month_i = @ + 1, !.duration_i = 1, !.campaign_i = 1,
                   !.poutcome_i = 1]
    ELSE IF g.contact_i < Len(Scanned(contact_options))
    THEN [g EXCEPT !.contact_i = @ + 1, !.month_i = 1, !.duration_i = 1,
                   !.campaign_i = 1, !.poutcome_i = 1]
    ELSE [g EXCEPT !.pc = "done"]

\* what the call has done, after predict_proba was given the row of c
Submitted(g, c) ==
    [g EXCEPT
       !.submitted = Append(@, c),
       !.last_row = create_input_df(InputDict(g.base_input, c))]

\* ... and returned proba
NotedScore(g, c, proba) ==
    [Submitted(g, c) EXCEPT
       !.max_seen = IF proba > @ THEN proba ELSE @,
       !.first_max = IF proba > g.max_seen THEN c ELSE @,
       !.ones = IF proba = 100 THEN Min(2, @ + 1) ELSE @,
       !.one_cand = IF proba = 100 /\ g.ones = 0 THEN c ELSE @,
       !.rest_zero = @ /\ proba \in {0, 100},
       !.all_failed = FALSE]

\* ... and raised
NotedFailure(g, c) == [Submitted(g, c) EXCEPT !.rest_zero = FALSE]

\* lines 141-150: the accumulator after predict_proba returned proba for c
Accumulated(g, c, proba) ==
    IF Better(Confidence(proba), g.best_confidence)
    THEN [g EXCEPT !.best_confidence = Confidence(proba),
                   !.best_params = StoredParams(c)]
    ELSE g

\* One iteration of the innermost loop (lines 131-152) in which
\* predict_proba returns proba, and the loop headers that follow it; after
\* the last iteration, the return of line 154.
GridScored(proba) ==
    /\ grid.pc = "scan"
    /\ LET c == Candidate(grid)
       IN  grid' = Advance(Accumulated(NotedScore(grid, c, proba), c, proba))

\* One iteration in which predict_proba raises: an AttributeError is caught
\* (continue), any other exception leaves the function.
GridFailed(kind) ==
    /\ grid.pc = "scan"
    /\ LET c == Candidate(grid)
       IN  grid' =
             IF kind = "AttributeError"
             THEN Advance(NotedFailure(grid, c))
             ELSE [NotedFailure(grid, c) EXCEPT !.pc = "raised", !.raised = kind]

(***************************************************************************)
(* Prediction_app_improved3.py: find_minimal_change_for_success.           *)
(*                                                                         *)
(* Of the base record the model keeps duration, campaign, month and pdays. *)
(* Probabilities are counts of hundredths. Each call of predict_proba      *)
(* returns a probability or raises, drawn at the call. The returned pair   *)
(* is (changes, prob); None is written << >>.                              *)
(***************************************************************************)
\* probabilities returned by predict_proba(...)[0][1]: 0.49, 0.50, 1.0
ChangeProbs == {49, 50, 100}

\* the base records of the calls
ChangeBases ==
    {[k \in {"duration", "campaign", "month", "pdays"} |->
        CASE k = "duration" -> d [] k = "campaign" -> c
          [] k = "month" -> m [] k = "pdays" -> -1] :
        d \in {50, 300, 1000}, c \in {1, 2, 4}, m \in {"may", "mar"}}

\* the (param, value) pairs of one parameter
Pairs(param, values) ==
    [i \in 1 .. Len(values) |-> [param |-> param, value |-> values[i]]]

\* changeable_params (lines 185-189), in the order in which the two loops
\* of lines 191-192 go through it
changeable_params(base_input) ==
    Pairs("duration", SelectSeq(<<100, 300, 600, 1000>>,
                                LAMBDA d : d > base_input["duration"]))
    \o Pairs("campaign", SelectSeq(<<1, 2, 3>>,
                                   LAMBDA c : c < base_input["campaign"]))
    \o Pairs("month", <<"mar", "sep", "oct", "dec">>)

\* temp_input = base_input.copy(); temp_input[param] = value
TempInput(base_input, cand) ==
    [k \in {cand.param} |-> cand.value] @@ base_input

\* mutant: the threshold itself does not count as reached
ReachesAbove(prob) == prob > SUCCESS_THRESHOLD

\* the test of line 197
Reaches(prob) == prob >= SUCCESS_THRESHOLD

\* The call: its locals (idx is the position of the loops in
\* changeable_params), what it returned, and what it has done so far: tried
\* counts the candidates given to predict_proba, first_reached is the
\* position of the first candidate that got 0.50 or more (0: none),
\* warnings counts the candidates on which predict_proba raised, last_row is
\* the latest row given to predict_proba.
ChangeIdle ==
    [pc |-> "idle", base_input |-> << >>, original_prob |-> -1, idx |-> 1,
     changes |-> << >>, prob |-> -1, error |-> "none", tried |-> 0,
     first_reached |-> 0, warnings |-> 0, last_row |-> << >>]

\* find_minimal_change_for_success(base_input) entered
ChangeInit ==
    \E b \in ChangeBases :
        change = [ChangeIdle EXCEPT !.pc = "original", !.base_input = b]

\* the return of line 203 once the loops are exhausted
AfterCandidate(g) ==
    IF g.idx < Len(changeable_params(g.base_input))
    THEN [g EXCEPT !.idx = @ + 1]
    ELSE [g EXCEPT !.pc = "done", !.changes = << >>,
                   !.prob = g.original_prob]

\* line 180: predict_proba returns original_prob for the base record
OriginalScored(proba) ==
    /\ change.pc = "original"
    /\ change' = [change EXCEPT
                    !.pc = "scan",
                    !.original_prob = proba,
                    !.last_row = create_input_df(change.base_input)]

\* lines 181-183: predict_proba raises for the base record
OriginalFailed(kind) ==
    /\ change.pc = "original"
    /\ change' = [change EXCEPT
                    !.pc = "done", !.error = kind,
                    !.changes = << >>, !.prob = 0,
                    !.last_row = create_input_df(change.base_input)]

\* what the call has done, after predict_proba was given the row of cand
Tried(g, cand) ==
    [g EXCEPT !.tried = @ + 1,
              !.last_row = create_input_df(TempInput(g.base_input, cand))]

\* lines 193-198: predict_proba returns proba for the current candidate
CandidateScored(proba) ==
    /\ change.pc = "scan"
    /\ LET cand == changeable_params(change.base_input)[change.idx]
           g    == [Tried(change, cand) EXCEPT
                      !.first_reached =
                          IF @ = 0 /\ proba >= 50 THEN change.idx ELSE @]
       IN  change' =
             IF Reaches(proba)
             THEN [g EXCEPT !.pc = "done",
                            !.changes = [k \in {cand.param} |-> cand.value],
                            !.prob = proba]
             ELSE AfterCandidate(g)

\* lines 199-201: predict_proba raises for the current candidate; the
\* warning is shown and the loop continues
CandidateFailed(kind) ==
    /\ change.pc = "scan"
    /\ LET cand == changeable_params(change.base_input)[change.idx]
       IN  change' = AfterCandidate([Tried(change, cand) EXCEPT
                                       !.warnings = @ + 1])

ChangeNext ==
    \/ \E proba \in ChangeProbs :
          OriginalScored(proba) /\ UNCHANGED <<gui, run, search, grid, bulk, boot>>
    \/ \E kind \in Failures :
          OriginalFailed(kind) /\ UNCHANGED <<gui, run, search, grid, bulk, boot>>
    \/ \E proba \in ChangeProbs :
          CandidateScored(proba) /\ UNCHANGED <<gui, run, search, grid, bulk, boot>>
    \/ \E kind \in Failures :
          CandidateFailed(kind) /\ UNCHANGED <<gui, run, search, grid, bulk, boot>>

ChangeSpecInit ==
    /\ GuiInit
    /\ run = RunIdle
    /\ search = SearchIdle
    /\ grid = GridIdle
    /\ bulk = BulkIdle
    /\ ChangeInit
    /\ boot = BootDone

ChangeSpec == ChangeSpecInit /\ [][ChangeNext]_vars

GridNext ==
    \/ \E proba \in Probs : GridScored(proba) /\ UNCHANGED <<gui, run, search, bulk, change, boot>>
    \/ \E kind \in Failures : GridFailed(kind) /\ UNCHANGED <<gui, run, search, bulk, change, boot>>

GridSpecInit ==
    /\ GuiInit
    /\ run = RunIdle
    /\ search = SearchIdle
    /\ GridInit
    /\ bulk = BulkIdle
    /\ change = ChangeIdle
    /\ boot = BootDone

GridSpec == GridSpecInit /\ [][GridNext]_vars

BulkNext ==
    \/ BulkRead /\ UNCHANGED <<gui, run, search, grid, change, boot>>
    \/ \E probabilities \in [1 .. Len(bulk.rows) -> RowProbs] :
          BulkScored(probabilities) /\ UNCHANGED <<gui, run, search, grid, change, boot>>
    \/ BulkScoreFailed /\ UNCHANGED <<gui, run, search, grid, change, boot>>

BulkSpecInit ==
    /\ GuiInit
    /\ run = RunIdle
    /\ search = SearchIdle
    /\ grid = GridIdle
    /\ BulkInit
    /\ change = ChangeIdle
    /\ boot = BootDone

BulkSpec == BulkSpecInit /\ [][BulkNext]_vars

----
Init ==
    /\ GuiInit
    /\ run = RunIdle
    /\ search = SearchIdle
    /\ grid = GridIdle
    /\ bulk = BulkIdle
    /\ change = ChangeIdle
    /\ boot = BootDone

Next ==
    \/ \E k \in DiskChoices : MenuClickDisk(k)
    \/ \E name \in {"scoreboard", "how_to_play", "solver?"} : MenuClick(name)
    \/ \E name \in Names : GetNameEnter(name)
    \/ WinContinue
    \/ BackToMenu
    \/ \E name \in {"back", "history", "solver_explanation"} : GameClickButton(name)
    \/ \E i \in Towers : PickUp(i)
    \/ \E target_idx \in Towers \cup {None} : MouseUp(target_idx)
    \/ GameClickSolve
    \/ AnimStep
    \/ AnimStop

Spec == Init /\ [][Next]_vars

SolverInit ==
    /\ GuiInit
    /\ RunInit
    /\ search = SearchIdle
    /\ grid = GridIdle
    /\ bulk = BulkIdle
    /\ change = ChangeIdle
    /\ boot = BootDone

SolverNext ==
    \/ SolverCall /\ UNCHANGED <<gui, search, grid, bulk, change, boot>>
    \/ ReplayMove /\ UNCHANGED <<gui, search, grid, bulk, change, boot>>

SolverSpec == SolverInit /\ [][SolverNext]_vars

SearchSpecInit ==
    /\ GuiInit
    /\ run = RunIdle
    /\ SearchInit
    /\ grid = GridIdle
    /\ bulk = BulkIdle
    /\ change = ChangeIdle
    /\ boot = BootDone

SearchNext ==
    /\ \E src \in Towers, dest \in Towers : SearchMove(src, dest)
    /\ UNCHANGED <<gui, run, grid, bulk, change, boot>>

SearchSpec == SearchSpecInit /\ [][SearchNext]_vars

(***************************************************************************)
(* A session of several games in one run: short games (one or two disks),  *)
(* each played by hand or by the solver to its end, or left by 'Menu' or   *)
(* 'Historique'. The help and scoreboard-from-menu screens are left out.   *)
(***************************************************************************)
SessionDisks == {1, 2}

SessionNext ==
    \/ \E k \in SessionDisks : SessionClickDisk(k)
    \/ \E name \in Names : GetNameEnter(name)
    \/ WinContinue
    \/ BackToMenu
    \/ \E name \in {"back", "history"} : GameClickButton(name)
    \/ \E i \in Towers : PickUp(i)
    \/ \E target_idx \in Towers \cup {None} : MouseUp(target_idx)
    \/ GameClickSolve
    \/ AnimStep
    \/ AnimStop

SessionSpec == Init /\ [][SessionNext]_vars

(***************************************************************************)
(* One game played at length: by hand for up to 2^n counted moves, one     *)
(* more than the least number that wins, with the solver started and       *)
(* stopped at any point of it.                                             *)
(***************************************************************************)
PlayNext ==
    \/ \E k \in 1 .. MaxPlayDisks : PlayClickDisk(k)
    \/ \E name \in Names : GetNameEnter(name)
    \/ WinContinue
    \/ \E i \in Towers : PlayPickUp(i)
    \/ \E target_idx \in Towers \cup {None} : MouseUp(target_idx)
    \/ GameClickSolve
    \/ AnimStep
    \/ AnimStop

PlaySpec == Init /\ [][PlayNext]_vars

(***************************************************************************)
(* The disk-count boundary: setup_get_name and setup_game called with any  *)
(* integer of Args, the name entered, 'Menu' or 'Solution' clicked, the    *)
(* animation stopped before its first move.                                *)
(***************************************************************************)
Args == (0 - MaxArg) .. MaxArg

\* setup_get_name(num_disks), called from the menu screen
CallSetupGetName(num_disks) ==
    /\ game_state = "menu"
    /\ game_id <= MaxGames
    /\ setup_get_name(num_disks)
    /\ UNCHANGED <<n, min_moves, moves, animating, towers, dragging_disk,
                   source_tower_idx, is_solver_used, player_name, scores,
                   full_move_history, solution, anim_idx, last_sound>>
    /\ UNCHANGED files
    /\ UNCHANGED harness

\* setup_game(num_disks), called from the menu screen
CallSetupGame(num_disks) ==
    /\ game_state = "menu"
    /\ setup_game(num_disks)
    /\ UNCHANGED <<source_tower_idx, move_history, game_id, pending_disks,
                   player_name, scores, full_move_history, solution, anim_idx,
                   last_sound>>
    /\ UNCHANGED files
    /\ UNCHANGED harness

ClampNext ==
    \/ \E num_disks \in Args : CallSetupGetName(num_disks)
    \/ \E num_disks \in Args : CallSetupGame(num_disks)
    \/ \E name \in Names : GetNameEnter(name)
    \/ GameClickButton("back")
    \/ GameClickSolve
    \/ AnimStop

ClampSpec == Init /\ [][ClampNext]_vars

(***************************************************************************)
(* The start of the program, for every combination of what is found at     *)
(* the paths of the two files.                                             *)
(***************************************************************************)
StartSpecInit ==
    /\ StartInit
    /\ run = RunIdle
    /\ search = SearchIdle
    /\ grid = GridIdle
    /\ bulk = BulkIdle
    /\ change = ChangeIdle

StartNext ==
    \/ InitLoadScoreboard
    \/ InitLoadMoveHistory
    \/ InitSetupMenu

StartSpec == StartSpecInit /\ [][StartNext]_vars

(***************************************************************************)
(* Properties.                                                             *)
(***************************************************************************)
\* strictly decreasing sizes from bottom to top
Decreasing(t) == \A i \in 1 .. Len(t) - 1 : t[i] > t[i + 1]

Stacked(tw) == \A i \in DOMAIN tw : Decreasing(tw[i])

\* the number of disks on the three towers
OnTowers(tw) == Len(tw[0]) + Len(tw[1]) + Len(tw[2])

\* C1: in every state of the game, after any sequence of pick-ups, drops and
\* solver runs started at any point of play, every tower holds its disks in
\* strictly decreasing size from bottom to top.
C1_StackingInvariant == Stacked(towers)

\* C2: replaying hanoi_solver(n, source, destination, auxiliary) from the
\* position with all n disks on the source: no move is refused by the
\* legality test (non-empty source; destination empty or topped by a strictly
\* larger disk), every prefix leaves all towers strictly decreasing, and
\* after the last move all n disks are on the destination.
C2_ReplayLegal ==
    /\ run.pc # "rejected"
    /\ Stacked(run.towers)
    /\ (run.pc = "replay" /\ run.idx < Len(run.solution)) =>
          LET src  == run.solution[run.idx + 1][1]
              dest == run.solution[run.idx + 1][2]
          IN  /\ Len(run.towers[src]) > 0
              /\ (Len(run.towers[dest]) = 0
                    \/ run.towers[dest][Len(run.towers[dest])]
                         > run.towers[src][Len(run.towers[src])])
    /\ (run.pc = "replay" /\ run.idx = Len(run.solution)) =>
          run.towers = AllOn(run.n, run.destination)

\* the replay of a solution of at least three disks has ended
C2_Witness ==
    /\ run.pc = "replay"
    /\ run.n >= 3
    /\ run.idx = Len(run.solution)
    /\ run.idx > 0
    /\ Len(run.towers[run.destination]) = run.n

\* C3: for every n in 0..MaxN the list returned by hanoi_solver has exactly
\* 2^n - 1 moves; for n = 0 it is the empty list.
C3_Length ==
    run.pc = "replay" =>
        /\ Len(run.solution) = 2 ^ run.n - 1
        /\ (run.n = 0 => run.solution = << >>)

\* hanoi_solver has returned for n = 10
C3_Witness ==
    /\ run.pc = "replay"
    /\ run.n = 10
    /\ Len(run.solution) = 1023

\* C4: the list returned by hanoi_solver is the unique minimal solution:
\* every sequence of legal moves of at most 2^n - 1 moves that takes all n
\* disks from the source to the destination has exactly 2^n - 1 moves and is
\* the returned list.
C4_UniqueMinimal ==
    search.towers = AllOn(search.n, search.destination) =>
        /\ search.steps = 2 ^ search.n - 1
        /\ search.on_solution
        /\ search.steps = Len(search.solution)

\* a play of three disks or more has reached the destination
C4_Witness ==
    /\ search.n >= 3
    /\ search.steps = 2 ^ search.n - 1
    /\ search.towers = AllOn(search.n, search.destination)

\* C5: for n >= 1 the returned list is hanoi_solver(n-1, s, a, d), then the
\* move (s, d), then hanoi_solver(n-1, a, d, s); every move is a pair of two
\* distinct towers among s, d, a; hanoi_solver(3, 0, 2, 1) is
\* (0,2),(0,1),(2,1),(0,2),(1,0),(1,2),(0,2).
C5_Recursion ==
    (run.pc = "replay" /\ run.idx = 0) =>
        LET s == run.source
            d == run.destination
            a == run.auxiliary
        IN  /\ run.n >= 1 =>
                  run.solution = hanoi_solver(run.n - 1, s, a, d)
                                 \o << <<s, d>> >>
                                 \o hanoi_solver(run.n - 1, a, d, s)
            /\ \A i \in 1 .. Len(run.solution) :
                  /\ run.solution[i][1] # run.solution[i][2]
                  /\ run.solution[i][1] \in {s, d, a}
                  /\ run.solution[i][2] \in {s, d, a}
            /\ (run.n = 3 /\ s = 0 /\ d = 2 /\ a = 1) =>
                  run.solution = << <<0, 2>>, <<0, 1>>, <<2, 1>>, <<0, 2>>,
                                    <<1, 0>>, <<1, 2>>, <<0, 2>> >>

\* hanoi_solver(3, 0, 2, 1) has returned
C5_Witness ==
    /\ run.pc = "replay"
    /\ run.idx = 0
    /\ run.n = 3
    /\ run.source = 0
    /\ run.destination = 2
    /\ run.auxiliary = 1
    /\ Len(run.solution) = 7

----
\* In a step that releases the held disk: the disk, the tower it came from
\* and the towers as they were before it was picked up.
Releases == dragging_disk # NoDisk /\ dragging_disk' = NoDisk

BeforePickUp == [towers EXCEPT ![source_tower_idx] = Append(@, dragging_disk)]

\* the rule of the game for putting the held disk on tower t
Accepts(t) ==
    IF t = None THEN FALSE
    ELSE IF Len(towers[t]) = 0 THEN TRUE
    ELSE towers[t][Len(towers[t])] > dragging_disk

\* the towers with the held disk added on top of tower t
PlacedOn(t) == [towers EXCEPT ![t] = Append(@, dragging_disk)]

Targets == Towers \cup {None}

\* C6: a held disk released over a tower whose top disk is smaller, or
\* outside every tower, goes back on the tower it was picked from: the three
\* towers are as before the pick-up (which took the top disk of the tower
\* recorded as the source), the move counter is unchanged and move_history
\* gets no entry.
C6_IllegalDropNoOp ==
    [][ /\ \A t \in Targets :
              (MouseUp(t) /\ ~Accepts(t)) =>
                  /\ towers' = BeforePickUp
                  /\ moves' = moves
                  /\ move_history' = move_history
        /\ (dragging_disk = NoDisk /\ dragging_disk' # NoDisk) =>
              towers = [towers' EXCEPT
                          ![source_tower_idx'] = Append(@, dragging_disk')]
      ]_vars

\* a release over a tower has just been refused in a game played by hand
C6_Witness ==
    /\ game_state = "game"
    /\ ~is_solver_used
    /\ dragging_disk = NoDisk
    /\ last_sound = "invalid"
    /\ moves >= 1
    /\ Stacked(towers)

\* C7: a held disk released over tower t is put on t if t is empty or its top
\* disk is strictly larger, and if not it is put on no tower but its source;
\* a disk is picked up only from the top of a non-empty tower.
C7_Legality ==
    [][ /\ \A t \in Towers :
              MouseUp(t) =>
                  /\ Accepts(t) => towers' = PlacedOn(t)
                  /\ (~Accepts(t) /\ t # source_tower_idx) =>
                        /\ towers' # PlacedOn(t)
                        /\ towers'[t] = towers[t]
        /\ (dragging_disk = NoDisk /\ dragging_disk' # NoDisk) =>
              \E i \in Towers :
                  /\ Len(towers[i]) > 0
                  /\ dragging_disk' = towers[i][Len(towers[i])]
                  /\ towers' = [towers EXCEPT
                                  ![i] = SubSeq(@, 1, Len(@) - 1)]
      ]_vars

\* a disk has just been accepted on top of a larger one
C7_Witness ==
    /\ game_state = "game"
    /\ ~is_solver_used
    /\ dragging_disk = NoDisk
    /\ last_sound = "drop"
    /\ moves >= 1
    /\ LET t == move_history[Len(move_history)].destination - 1
       IN  /\ Len(towers[t]) >= 2
           /\ source_tower_idx # t

\* C8: an accepted release from tower s onto tower t moves the disk that was
\* on top of s onto t and leaves the third tower unchanged; the move counter
\* increases by exactly 1 when s # t and is unchanged when s = t.
C8_AcceptedDropEffect ==
    [][ \A t \in Towers :
            (MouseUp(t) /\ Accepts(t)) =>
                LET s      == source_tower_idx
                    before == BeforePickUp
                    disk   == before[s][Len(before[s])]
                IN  /\ towers'[t][Len(towers'[t])] = disk
                    /\ \A u \in Towers \ {s, t} : towers'[u] = before[u]
                    /\ s # t =>
                          /\ towers'[s] = SubSeq(before[s], 1, Len(before[s]) - 1)
                          /\ towers'[t] = Append(before[t], disk)
                          /\ moves' = moves + 1
                    /\ s = t =>
                          /\ towers' = before
                          /\ moves' = moves
      ]_vars

\* a disk has been picked up and put back on its own tower after a counted
\* move
C8_Witness ==
    /\ game_state = "game"
    /\ ~is_solver_used
    /\ dragging_disk = NoDisk
    /\ last_sound = "drop"
    /\ moves = 1
    /\ source_tower_idx = move_history[1].destination - 1

\* C9: a release ends in the 'win' state exactly when tower 1 or tower 2
\* then holds n disks; a game that has its move-history entry gets no
\* further score or move-history entry, and no two entries of
\* full_move_history carry the same game_id.
C9_WinOnce ==
    [][ /\ Releases =>
              (game_state' = "win" <=>
                  (Len(towers'[1]) = n \/ Len(towers'[2]) = n))
        /\ (\E i \in 1 .. Len(full_move_history) :
                full_move_history[i].game_id = game_id) =>
              /\ scores' = scores
              /\ full_move_history' = full_move_history
        /\ \A i, j \in 1 .. Len(full_move_history') :
              i # j => full_move_history'[i].game_id
                         # full_move_history'[j].game_id
      ]_vars

\* a game won by hand, left for the menu, with its one score and its one
\* move-history entry
C9_Witness ==
    /\ game_state = "menu"
    /\ Len(scores) = 1
    /\ Len(full_move_history) = 1
    /\ full_move_history[1].game_id = game_id
    /\ Len(full_move_history[1].moves) >= 1

\* the number of places (tower positions, held-disk slot) where disk d is
Occurrences(d) ==
    Cardinality({p \in Towers \X (1 .. n) :
                    /\ p[2] <= Len(towers[p[1]])
                    /\ towers[p[1]][p[2]] = d})
    + (IF dragging_disk = d THEN 1 ELSE 0)

\* C10: each of the n disks created by setup_game is in exactly one place,
\* a position of a tower or the held-disk slot, with nothing else on the
\* towers; when no disk is held, the n disks are all on the towers.
C10_DiskConservation ==
    DOMAIN towers = Towers =>
        /\ \A d \in 1 .. n : Occurrences(d) = 1
        /\ OnTowers(towers) + (IF dragging_disk = NoDisk THEN 0 ELSE 1) = n
        /\ dragging_disk = NoDisk => OnTowers(towers) = n

\* a solver run started after a move by hand has been stopped after it moved
\* a disk
C10_Witness ==
    /\ game_state = "game"
    /\ is_solver_used
    /\ ~animating
    /\ last_sound = "invalid"
    /\ moves >= 1
    /\ towers # AllOn(n, 0)
    /\ ~Stacked(towers)

----
\* The grid search. The position of a value in its declared option list, and
\* the rank of a candidate in the order 'contact, then month, duration,
\* campaign, poutcome'.
Pos(options, v) == CHOOSE i \in 1 .. Len(options) : options[i] = v

Rank(c) ==
    ((((Pos(contact_options, c.contact) * (Len(month_options) + 1)
        + Pos(month_options, c.month)) * (Len(duration_options) + 1)
        + Pos(duration_options, c.duration)) * (Len(campaign_options) + 1)
        + Pos(campaign_options, c.campaign)) * (Len(poutcome_options) + 1)
        + Pos(poutcome_options, c.poutcome))

\* the combinations of the scanned options
Product ==
    [contact  : {Scanned(contact_options)[i] :
                    i \in 1 .. Len(Scanned(contact_options))},
     month    : {Scanned(month_options)[i] :
                    i \in 1 .. Len(Scanned(month_options))},
     duration : {Scanned(duration_options)[i] :
                    i \in 1 .. Len(Scanned(duration_options))},
     campaign : {Scanned(campaign_options)[i] :
                    i \in 1 .. Len(Scanned(campaign_options))},
     poutcome : {Scanned(poutcome_options)[i] :
                    i \in 1 .. Len(Scanned(poutcome_options))}]

\* how candidate c reads in the returned dict: the month with a capital
\* initial, the other four values as they are
Shown(c) ==
    [k \in {"Contact Type", "Month", "Call Duration (seconds)",
            "Number of Contacts", "Previous Campaign Outcome"} |->
        CASE k = "Contact Type" -> c.contact
          [] k = "Month" -> Capitalize(c.month)
          [] k = "Call Duration (seconds)" -> c.duration
          [] k = "Number of Contacts" -> c.campaign
          [] k = "Previous Campaign Outcome" -> c.poutcome]

C12_TieBreak ==
    [][ /\ (grid.pc = "scan" /\ grid.submitted = << >>) =>
              (grid.best_params = << >> /\ grid.best_confidence = 0)
        /\ grid'.best_confidence >= grid.best_confidence
        /\ \A proba \in Probs :
              GridScored(proba) =>
                  IF 100 * proba > grid.best_confidence
                  THEN /\ grid'.best_confidence = 100 * proba
                       /\ grid'.best_params = Shown(Candidate(grid))
                  ELSE /\ grid'.best_confidence = grid.best_confidence
                       /\ grid'.best_params = grid.best_params
        /\ \A kind \in Failures :
              GridFailed(kind) =>
                  /\ grid'.best_confidence = grid.best_confidence
                  /\ grid'.best_params = grid.best_params
        /\ (Len(grid'.submitted) > Len(grid.submitted)
              /\ Len(grid.submitted) > 0) =>
              Rank(grid.submitted[Len(grid.submitted)])
                < Rank(grid'.submitted[Len(grid'.submitted)])
        /\ grid'.pc = "done" =>
              IF grid'.max_seen > 0
              THEN grid'.best_params = Shown(grid'.first_max)
              ELSE grid'.best_params = << >> /\ grid'.best_confidence = 0
      ]_vars

\* the search has returned the first of several candidates that got 1.0,
\* which is not the first candidate scanned
C12_Witness ==
    /\ grid.pc = "done"
    /\ grid.ones = 2
    /\ grid.one_cand # grid.submitted[1]
    /\ grid.best_params = Shown(grid.one_cand)
    /\ grid.best_confidence = 10000

\* C13: the grid search never lets a failure of the scoring function reach
\* its caller, whatever its kind, and when every candidate failed it returns
\* the empty candidate with score 0.
C13_FailuresContained ==
    /\ grid.pc # "raised"
    /\ (grid.pc = "done" /\ grid.all_failed) =>
          (grid.best_params = << >> /\ grid.best_confidence = 0)

\* the field values of candidate c, as they were given to the scoring
\* function
AsGiven(c) ==
    [k \in {"Contact Type", "Month", "Call Duration (seconds)",
            "Number of Contacts", "Previous Campaign Outcome"} |->
        CASE k = "Contact Type" -> c.contact
          [] k = "Month" -> c.month
          [] k = "Call Duration (seconds)" -> c.duration
          [] k = "Number of Contacts" -> c.campaign
          [] k = "Previous Campaign Outcome" -> c.poutcome]

\* the scoring function returned 1.0 for exactly one candidate and 0.0 for
\* all the others, and the search has returned
OnePeak == grid.pc = "done" /\ grid.ones = 1 /\ grid.rest_zero

C15_Exhaustive ==
    /\ Len(contact_options) * Len(month_options) * Len(duration_options)
         * Len(campaign_options) * Len(poutcome_options) = 3600
    /\ grid.pc \in {"done", "raised"} =>
          /\ Len(grid.submitted) = Cardinality(Product)
          /\ \A c \in Product :
                Cardinality({i \in 1 .. Len(grid.submitted) :
                                grid.submitted[i] = c}) = 1
          /\ grid.base_input \in BaseInputs

----
\* C16: whatever integer setup_get_name or setup_game is called with, the
\* pending count is at least 1 and the disk count n of the game is the
\* integer brought into 1..8 (1 below 1, 8 above 8); hanoi_solver is called
\* by start_animation with that n, 1 <= n <= 8, never with n <= 0.
C16_DiskCountClamped ==
    [][ /\ \A k \in Args :
              CallSetupGetName(k) =>
                  pending_disks' = (IF k < 1 THEN 1 ELSE k)
        /\ \A k \in Args :
              CallSetupGame(k) =>
                  n' = (IF k < 1 THEN 1 ELSE IF k > 8 THEN 8 ELSE k)
        /\ game_state' = "game" => (1 <= n' /\ n' <= 8)
        /\ (~animating /\ animating') =>
              /\ 1 <= n /\ n <= 8
              /\ solution' = hanoi_solver(n, 0, 2, 1)
              /\ Len(solution') = 2 ^ n - 1
      ]_vars

\* the solver has been started in a game asked for with more than 8 disks
C16_Witness ==
    /\ animating
    /\ pending_disks > 8
    /\ n = 8
    /\ Len(solution) = 255

----
\* C17: every step of the game leaves self.scores unchanged or appends one
\* entry {name, disks, time, moves} at its end, the entries already there
\* staying as they are and in their order; scoreboard.json changes only by
\* being written with the complete list, and holds it after every step.
C17_ScoresAppendOnly ==
    [][ /\ \/ scores' = scores
           \/ /\ Len(scores') = Len(scores) + 1
              /\ SubSeq(scores', 1, Len(scores)) = scores
              /\ DOMAIN scores'[Len(scores')]
                    = {"name", "disks", "time", "moves"}
        /\ scoreboard_json' # scoreboard_json => scores' # scores
        /\ scoreboard_json' = scores'
      ]_vars

\* two games won by hand in one run: the second score follows the first
C17_Witness ==
    /\ game_state = "scoreboard"
    /\ Len(scores) = 2
    /\ Len(full_move_history) = 2
    /\ full_move_history[1].moves # full_move_history[2].moves
    /\ scoreboard_json = scores

\* the position reached from tw by the moves ms (1-based tower indices)
\* made in order, << >> if one of them cannot be made
RECURSIVE Replayed(_, _)
Replayed(tw, ms) ==
    IF Len(ms) = 0 \/ DOMAIN tw # Towers
    THEN tw
    ELSE LET src  == ms[1].source - 1
             dest == ms[1].destination - 1
         IN  IF src \notin Towers \/ dest \notin Towers
             THEN << >>
             ELSE IF IsEmpty(tw[src])
             THEN << >>
             ELSE Replayed(MoveDisk(tw, src, dest), Tail(ms))

UniqueGameIds(h) ==
    \A i, j \in 1 .. Len(h) : i # j => h[i].game_id # h[j].game_id

OneBased(ms) ==
    \A i \in 1 .. Len(ms) :
        ms[i].source \in 1 .. 3 /\ ms[i].destination \in 1 .. 3

\* C18, as claimed: no two entries of full_move_history carry the same
\* game_id, and the entry appended for a game carries its game_id and, as
\* 1-based tower indices in 1..3, the ordered moves of that game: made in
\* order from the initial position, they give the position the game was
\* won in.
C18_EntryIsTheGame ==
    [][ /\ UniqueGameIds(full_move_history')
        /\ Len(full_move_history') > Len(full_move_history) =>
              LET e == full_move_history'[Len(full_move_history')]
              IN  /\ e.game_id = game_id
                  /\ OneBased(e.moves)
                  /\ Replayed(AllOn(n, 0), e.moves) = towers'
      ]_vars

\* C18, amended: no two entries of full_move_history carry the same
\* game_id, and the entry appended for a game carries its game_id and, as
\* 1-based tower indices in 1..3, the list move_history of that game: the
\* ordered moves made since the game started or, if the solver was started
\* in it, since the solver was last started (start_animation empties the
\* list). For a game in which the solver was not started these are all the
\* moves of the game.
C18_EntryIsTheRecord ==
    [][ /\ UniqueGameIds(full_move_history')
        /\ Len(full_move_history') > Len(full_move_history) =>
              LET e == full_move_history'[Len(full_move_history')]
              IN  /\ e.game_id = game_id
                  /\ OneBased(e.moves)
                  /\ e.moves = move_history'
                  /\ ~is_solver_used =>
                        Replayed(AllOn(n, 0), e.moves) = towers'
        /\ (~animating /\ animating') => move_history' = << >>
        /\ game_id' # game_id => move_history' = << >>
      ]_vars

\* two games played in one run: one of two disks finished by the solver in
\* three moves, then one of one disk won by hand
C18_Witness ==
    /\ game_state = "scoreboard"
    /\ Len(full_move_history) = 2
    /\ full_move_history[1].game_id # full_move_history[2].game_id
    /\ full_move_history[1].disks = 2
    /\ Len(full_move_history[1].moves) = 3
    /\ Len(scores) = 1
    /\ scores[1].disks = 1
    /\ full_move_history[2].moves = << [source |-> 1, destination |-> 2] >>

----
\* the required columns that the uploaded table lacks
Lacking == Required \ bulk.header

\* C19: for a table that lacks required columns, process_bulk_upload shows
\* the error that lists exactly the lacking required columns, each once,
\* returns None with no output table, and never calls the scoring function;
\* the scoring function is called only on tables that have every required
\* column.
C19_MissingColumnsRejected ==
    /\ (bulk.pc = "done" /\ bulk.parsable /\ Lacking # {}) =>
          /\ ~bulk.returned
          /\ bulk.output_rows = << >>
          /\ bulk.output_columns = {}
          /\ bulk.calls = 0
          /\ bulk.error[1] = "missing columns"
          /\ {bulk.error[i] : i \in 2 .. Len(bulk.error)} = Lacking
          /\ Len(bulk.error) - 1 = Cardinality(Lacking)
    /\ (bulk.pc = "score" \/ bulk.calls > 0) => Lacking = {}

\* an uploaded file object whose table of two rows lacks two required
\* columns has been rejected
C19_Witness ==
    /\ bulk.pc = "done"
    /\ bulk.kind = "buffer"
    /\ Len(bulk.rows) = 2
    /\ Cardinality(Lacking) = 2
    /\ "pdays" \in Lacking
    /\ Len(bulk.error) = 3
    /\ bulk.calls = 0

\* C20: for an uploaded table that has every required column and whose rows
\* the scoring function scored, process_bulk_upload returns the uploaded
\* rows in their order, each with a probability and with the label
\* 'Prioritize' exactly when that probability is >= 0.50, 'De-prioritize'
\* otherwise.
C20_RowsAnnotated ==
    (/\ bulk.pc = "done"
     /\ bulk.parsable
     /\ Lacking = {}
     /\ bulk.calls = 1
     /\ bulk.error # << "unexpected", "predict_proba" >>) =>
        /\ bulk.returned
        /\ bulk.output_columns =
              bulk.header \cup {"Subscription Probability", "Recommendation"}
        /\ Len(bulk.output_rows) = Len(bulk.rows)
        /\ \A i \in 1 .. Len(bulk.rows) :
              /\ bulk.output_rows[i].pdays = bulk.rows[i]
              /\ bulk.output_rows[i].probability \in RowProbs
              /\ bulk.output_rows[i].recommendation =
                    (IF bulk.output_rows[i].probability >= 50
                     THEN "Prioritize" ELSE "De-prioritize")

----
\* C21: at start-up, whenever scoreboard.json (move_history.json) is missing
\* or does not hold valid JSON, nothing is raised, self.scores
\* (self.full_move_history) is the empty list once its load method has
\* returned, and the program reaches the menu.
C21_ReadFailuresNonFatal ==
    /\ boot.pc # "raised"
    /\ (boot.scoreboard_file # "list" /\ boot.pc # "load_scoreboard") =>
          scores = << >>
    /\ (boot.move_history_file # "list"
          /\ boot.pc \in {"setup_menu", "running"}) =>
          full_move_history = << >>
    /\ boot.pc = "running" => game_state = "menu"

----
\* C22: the solver is started only while no disk is held, and while its
\* animation runs no disk is picked up or dropped: in every step taken
\* during the animation no disk is held before or after it, and the towers,
\* the move counter and move_history either stay as they are (the animation
\* is stopped, or skips a move whose source tower is empty) or change by the
\* next move of the solver's list and by nothing else.
C22_NoInterleaving ==
    [][ /\ (~animating /\ animating') =>
              (dragging_disk = NoDisk /\ dragging_disk' = NoDisk)
        /\ animating =>
              /\ dragging_disk = NoDisk
              /\ dragging_disk' = NoDisk
              /\ anim_idx < Len(solution)
              /\ LET src  == solution[anim_idx + 1][1]
                     dest == solution[anim_idx + 1][2]
                 IN  \/ /\ towers' = towers
                        /\ moves' = moves
                        /\ move_history' = move_history
                     \/ /\ Len(towers[src]) > 0
                        /\ towers' = MoveDisk(towers, src, dest)
                        /\ moves' = moves + 1
                        /\ move_history' =
                              Append(move_history,
                                     [source |-> src + 1,
                                      destination |-> dest + 1])
      ]_vars

\* an animation started in the middle of a game played by hand has moved a
\* disk (onto a smaller one) and is still running
C22_Witness ==
    /\ animating
    /\ anim_idx >= 1
    /\ moves >= 1
    /\ dragging_disk = NoDisk
    /\ ~Stacked(towers)

----
\* C23: whenever 'Solution' is pressed during a game, in whatever position
\* the game is, and the animation is not stopped, the animation ends with
\* all n disks on tower 2 and the game in the 'win' state.
C23_SolverResolves ==
    [][ (AnimStep /\ ~animating') =>
            /\ towers' = AllOn(n, 2)
            /\ game_state' = "win"
      ]_vars

----
\* the state that setup_game(k) is to leave: n is k brought into 1..8,
\* tower 0 holds the sizes n, n-1, ..., 1 from bottom to top, towers 1 and 2
\* are empty, no disk is held, the counter is 0, the solver-used flag is
\* false and min_moves is 2^n - 1
FreshGame(k) ==
    LET m == IF k < 1 THEN 1 ELSE IF k > 8 THEN 8 ELSE k
    IN  /\ n' = m
        /\ DOMAIN towers' = 0 .. 2
        /\ Len(towers'[0]) = m
        /\ \A j \in 1 .. m : towers'[0][j] = m + 1 - j
        /\ towers'[1] = << >>
        /\ towers'[2] = << >>
        /\ dragging_disk' = NoDisk
        /\ moves' = 0
        /\ is_solver_used' = FALSE
        /\ animating' = FALSE
        /\ min_moves' = 2 ^ m - 1
        /\ game_state' = "game"

\* C24: after setup_game(k), called with any integer k or with the pending
\* count when the name is entered, tower 0 holds the disks of sizes
\* n, n-1, ..., 1 from bottom to top (n = k clamped to 1..8), towers 1 and 2
\* are empty, no disk is held, the move counter is 0, the solver-used flag
\* is false and min_moves is 2^n - 1.
C24_InitialState ==
    [][ /\ \A k \in Args : CallSetupGame(k) => FreshGame(k)
        /\ \A name \in Names : GetNameEnter(name) => FreshGame(pending_disks)
      ]_vars

\* the name was entered for a game asked for with more than 8 disks: the
\* game has been set up with 8
C24_Witness ==
    /\ game_state = "game"
    /\ pending_disks > 8
    /\ n = 8
    /\ towers[0] = <<8, 7, 6, 5, 4, 3, 2, 1>>
    /\ moves = 0
    /\ ~is_solver_used
    /\ last_sound = "drop"
    /\ min_moves = 255

----
\* C25: a click on each of the three top-left buttons of the menu (Scores,
\* Comment?, Solveur?) leaves the menu for the button's own screen, the
\* 'Solveur?' button for 'solver_explanation'; and the 'back_menu' button of
\* a screen leads to the menu again.
C25_MenuNavigation ==
    [][ /\ MenuClick("scoreboard") => game_state' = "scoreboard"
        /\ MenuClick("how_to_play") => game_state' = "how_to_play"
        /\ MenuClick("solver?") => game_state' = "solver_explanation"
        /\ BackToMenu => game_state' = "menu"
      ]_vars

----
\* C26: in every state of a game (being played, animated or won), the move
\* counter equals the number of entries of the game's move_history, whether
\* the moves were made by the player, by the solver, or by the player after
\* a stopped solver run.
C26_CounterIsHistoryLength ==
    game_state \in {"game", "win"} => moves = Len(move_history)

\* in the second game of a run, the solver has moved one disk and was
\* stopped, and the player then made one more move
C26_Witness ==
    /\ game_state = "game"
    /\ game_id = 3
    /\ is_solver_used
    /\ ~animating
    /\ dragging_disk = NoDisk
    /\ last_sound = "drop"
    /\ moves = 2
    /\ Len(move_history) = 2
    /\ Len(full_move_history) = 1

----
\* C27: every score entry appended by check_win records a move count that
\* is at least 2^disks - 1 for its disk count, and its disk count is the n
\* of the game that was won (and its move count that game's counter).
C27_ScoreAtLeastMinimum ==
    \A i \in 1 .. Len(scores) :
        /\ scores[i].moves >= 2 ^ scores[i].disks - 1
        /\ scores[i].disks = n
        /\ scores[i].moves = moves

\* a game of two disks has been won by hand in four moves, one more than
\* the minimum
C27_Witness ==
    /\ game_state = "win"
    /\ Len(scores) = 1
    /\ scores[1].disks = 2
    /\ scores[1].moves = 4
    /\ ~is_solver_used

----
\* a step that wins the game
Wins == game_state # "win" /\ game_state' = "win"

\* C28: a score entry is appended exactly by a win of a game in which the
\* solver was never started; every win appends one move-history entry for
\* its game. The solver-used flag tells whether the solver was started in
\* the game: it is set when 'Solution' is pressed and by nothing else, and
\* stays set, through a stopped animation and moves by hand, until the next
\* game is set up.
C28_ScoreIffNoSolver ==
    [][ /\ Len(scores') > Len(scores) <=> (Wins /\ ~is_solver_used)
        /\ Len(scores') \in {Len(scores), Len(scores) + 1}
        /\ IF Wins
           THEN /\ Len(full_move_history') = Len(full_move_history) + 1
                /\ full_move_history'[Len(full_move_history')].game_id = game_id
           ELSE full_move_history' = full_move_history
        /\ (~animating /\ animating') => is_solver_used'
        /\ (~is_solver_used /\ is_solver_used') => (~animating /\ animating')
        /\ (is_solver_used /\ ~is_solver_used') =>
              (game_state = "get_name" /\ game_state' = "game")
      ]_vars

\* two games of one disk: in the first the solver was started and stopped
\* and the player moved the disk to the middle tower (no score), the second
\* was won by hand (one score)
C28_Witness ==
    /\ game_state = "win"
    /\ game_id = 3
    /\ ~is_solver_used
    /\ Len(scores) = 1
    /\ Len(full_move_history) = 2
    /\ full_move_history[1].disks = 1
    /\ full_move_history[1].moves = << [source |-> 1, destination |-> 2] >>

----
\* the entries of full_move_history that draw_history shows: those of the
\* current game_id
ShownGames ==
    {i \in 1 .. Len(full_move_history) :
        full_move_history[i].game_id = game_id}

\* C29: whenever the 'history' screen is shown, full_move_history holds no
\* entry of this run with the current game_id: a game has its entry only
\* once it is won, and from a won game the history screen (reached from a
\* game being played) is reached only through the name entry of a new game,
\* which draws a new game_id.
C29_HistoryShowsNothing ==
    /\ game_state = "history" => ShownGames = {}
    /\ game_state \in {"get_name", "game"} => ShownGames = {}
    /\ ShownGames # {} => game_state \in {"win", "scoreboard", "menu"}

\* the history screen opened during the second game of a run, after a move,
\* the first game having been won
C29_Witness ==
    /\ game_state = "history"
    /\ game_id = 3
    /\ Len(full_move_history) = 1
    /\ full_move_history[1].game_id = 2
    /\ moves >= 1
    /\ ShownGames = {}

----
\* find_minimal_change_for_success has returned the change of one
\* parameter: the candidate at position first_reached of the scan, the
\* first that got 0.50 or more, with the probability it got. The change is
\* of duration to a listed value above the base's, of campaign to a listed
\* value below the base's, or of month to mar, sep, oct or dec; the row that
\* was scored differs from the base record in that parameter only; every
\* candidate before it was tried, none after it.
ReturnedOneChange ==
    LET cands == changeable_params(change.base_input)
        i     == change.first_reached
    IN  /\ i \in 1 .. Len(cands)
        /\ DOMAIN change.changes = {cands[i].param}
        /\ change.changes[cands[i].param] = cands[i].value
        /\ change.prob >= 50
        /\ CASE cands[i].param = "duration" ->
                  /\ cands[i].value \in {100, 300, 600, 1000}
                  /\ cands[i].value > change.base_input["duration"]
             [] cands[i].param = "campaign" ->
                  /\ cands[i].value \in {1, 2, 3}
                  /\ cands[i].value < change.base_input["campaign"]
             [] cands[i].param = "month" ->
                  cands[i].value \in {"mar", "sep", "oct", "dec"}
             [] OTHER -> FALSE
        /\ \A j \in 1 .. i - 1 :
              \/ cands[j].param = "duration"
              \/ cands[j].param = "campaign" /\ cands[i].param # "duration"
              \/ cands[j].param = "month" /\ cands[i].param = "month"
        /\ \A k \in DOMAIN change.base_input \ {cands[i].param} :
              change.last_row[k] = change.base_input[k]
        /\ change.last_row[cands[i].param] = cands[i].value
        /\ change.tried = i

\* ... has returned no change and the original probability: the base record
\* was scored, every candidate was tried (a failure skipped that candidate
\* only) and none got 0.50 or more
ReturnedOriginal ==
    /\ change.error = "none"
    /\ change.first_reached = 0
    /\ change.changes = << >>
    /\ change.prob = change.original_prob
    /\ change.prob \in ChangeProbs
    /\ change.tried = Len(changeable_params(change.base_input))

\* ... has returned no change and 0.0: scoring the base record failed and no
\* candidate was tried
ReturnedNothing ==
    /\ change.error # "none"
    /\ change.changes = << >>
    /\ change.prob = 0
    /\ change.tried = 0

\* C30, as claimed: find_minimal_change_for_success returns either the
\* change of exactly one parameter (duration to a listed value greater than
\* the current one, campaign to a listed value smaller than the current one,
\* month to one of mar/sep/oct/dec) whose probability is >= 0.50, the first
\* such candidate in the order duration, campaign, month; or, when no
\* candidate reaches 0.50, no change together with the original
\* probability. A scoring failure on a candidate skips that candidate and
\* the scan continues.
C30_MinimalChange ==
    /\ change.pc = "done" => (ReturnedOneChange \/ ReturnedOriginal)
    /\ change.pc = "scan" => change.tried = change.idx - 1

\* C30, amended: as claimed when the base record itself is scored; when
\* scoring the base record fails, the function tries no candidate and
\* returns no change together with 0.0.
C30_MinimalChangeOrNothing ==
    /\ change.pc = "done" =>
          (ReturnedOneChange \/ ReturnedOriginal \/ ReturnedNothing)
    /\ (change.pc = "done" /\ change.error = "none") =>
          (ReturnedOneChange \/ ReturnedOriginal)
    /\ (change.pc = "done" /\ change.error # "none") => ReturnedNothing
    /\ change.pc = "scan" => change.tried = change.idx - 1

\* a change of campaign has been returned with exactly 0.50, after the four
\* duration candidates were tried and predict_proba raised on some of the
\* candidates before it
C30_Witness ==
    /\ change.pc = "done"
    /\ DOMAIN change.changes = {"campaign"}
    /\ change.changes["campaign"] = 2
    /\ change.prob = 50
    /\ change.base_input["duration"] = 50
    /\ change.warnings >= 2
    /\ change.tried = 6

====
